---- MODULE Spec2Model ----
(***************************************************************************)
(* queuectl: a job queue persisted in SQLite, with worker processes,       *)
(* retries with exponential backoff and a dead letter queue.               *)
(*                                                                         *)
(* The store is the four tables of ensure_db (jobs, workers, control,      *)
(* config).  Every connection is opened with isolation_level=None, so each *)
(* SQL statement is its own transaction unless the code says BEGIN; the    *)
(* model takes one step per statement (or per explicit transaction), and   *)
(* a statement that writes waits for SQLite's single write lock.  Two      *)
(* pairs of statements of one process are taken as one step each: the      *)
(* reads at the top of worker_loop with the status write that follows      *)
(* them, and run_job's completion UPDATE with its UPDATE of the worker      *)
(* row.  Time is an integer clock; a job row keeps the columns the         *)
(* lifecycle reads or decides (not command, stdout, stderr, duration_ms,   *)
(* last_error, updated_at, locked_at).                                     *)
(***************************************************************************)
EXTENDS Integers, FiniteSets, Sequences, TLC

\* ------------------------------------------------------------------ bounds
MaxTime == 2
MaxRetries == 1
MaxPriority == 1
MaxRequeues == 2

JobIds == {"j1", "j2"}
WorkerIds == {"w1", "w2"}
OperatorIds == {"o1", "o2"}

\* ------------------------------------------------------------ the schema
NULL == "NULL"
NULL_INT == 0 - 9

JobStates == {"pending", "processing", "completed", "failed", "dead"}
WorkerStatuses == {"starting", "idle", "busy", "stopping", "stopped"}
ConfigValues == {"2", "3", "x"}
\* 0 is success; 1 stands for every other rc, the timeout's -1 included
ReturnCodes == {0, 1}

\* a row of the jobs table; state "absent" stands for "no row with this id"
NoJob ==
    [state |-> "absent", attempts |-> 0, max_retries |-> 0, priority |-> 0,
     created_at |-> 0, next_run_at |-> NULL_INT, locked_by |-> NULL,
     return_code |-> NULL_INT]

\* a row of the workers table; status "absent" stands for "no row"
NoWorker == [status |-> "absent", current_job_id |-> NULL]

\* the local variables of one worker process
NoLocals ==
    [job |-> NULL, now |-> 0, backoff_base |-> 0, attempts |-> 0]

VARIABLES
    scope,      \* the callers of this run: the job ids submitted, the operators that
                \* requeue, the config values set, whether workers are asked to stop
    now,        \* the wall clock read by utcnow()
    jobs,       \* table jobs
    workers,    \* table workers
    control,    \* table control, key 'shutdown'
    config,     \* table config, key 'backoff_base'
    writer,     \* the connection inside BEGIN IMMEDIATE, or NULL
    pc,         \* where each worker process is in worker_loop
    loc,        \* each worker process's local variables
    dlq,        \* each operator's dlq_retry call: the job id it selected
    requeues,   \* the number of dlq_retry calls that found their job so far
    fails,      \* ghost: failure-path completions of a job since its last requeue (or submission)
    completed_once, \* ghost: the job has been written completed
    dead_since, \* ghost: the job was written dead and no requeue wrote it since
    retry_at    \* ghost: the time the latest retry-scheduling failure set for the job

vars == <<scope, now, jobs, workers, control, config, writer, pc, loc, dlq, requeues,
          fails, completed_once, dead_since, retry_at>>

ghosts == <<fails, completed_once, dead_since, retry_at>>


\* ------------------------------------------------------------ pure helpers
RECURSIVE Pow(_, _)
Pow(b, e) == IF e <= 0 THEN 1 ELSE b * Pow(b, e - 1)

Max(a, b) == IF a >= b THEN a ELSE b

\* int(s) of a config value: the set holding the integer, empty when int() raises
IntOf(s) == IF s = "2" THEN {2} ELSE IF s = "3" THEN {3} ELSE {}

\* mutant of compute_backoff: the delay taken from the pre-increment count
compute_backoff_pre(base, attempts) == Pow(base, Max(attempts - 1, 0))

\* compute_backoff: base ** max(attempts, 0); run_job passes an int, so the
\* except branch (2 ** attempts) is not reachable from run_job
compute_backoff(base, attempts) == Pow(base, Max(attempts, 0))

\* mutant of ClaimableStates: the claim does not take failed jobs again
ClaimableStates_pending == {"pending"}

\* mutant of ClaimableStates: the claim does not exclude processing jobs
ClaimableStates_any == {"pending", "failed", "processing"}

\* the states acquire_job's SELECT and UPDATE accept
ClaimableStates == {"pending", "failed"}

\* WHERE state IN ('pending','failed') AND (next_run_at IS NULL OR next_run_at <= ?)
Eligible(t) ==
    {j \in JobIds : /\ jobs[j].state \in ClaimableStates
                    /\ \/ jobs[j].next_run_at = NULL_INT
                       \/ jobs[j].next_run_at <= t}

\* mutant of SortsBefore: ORDER BY created_at alone
SortsBefore_fifo(a, b) == jobs[a].created_at < jobs[b].created_at

\* ORDER BY priority DESC, created_at: a sorts strictly before b
SortsBefore(a, b) ==
    \/ jobs[a].priority > jobs[b].priority
    \/ /\ jobs[a].priority = jobs[b].priority
       /\ jobs[a].created_at < jobs[b].created_at

\* LIMIT 1: the rows that can come first (SQLite orders ties as it likes)
FirstRows(t) ==
    {j \in Eligible(t) : \A k \in Eligible(t) : ~SortsBefore(k, j)}

\* the pc values at which worker_loop has installed handle_signal
InLoop == {"loop", "acquire", "txn", "run", "exec", "failwrite"}

\* the pc values of a live worker process
Running == InLoop \cup {"spawned"}

\* the pc values between acquire_job returning a job and run_job's completion write
Holding == {"run", "exec", "failwrite"}

Holds(w, j) == pc[w] \in Holding /\ loc[w].job = j

\* The runs explored: one job that two operators requeue concurrently; one job
\* under every config value; two jobs whose workers are never asked to stop.
Scopes ==
    { [job_ids |-> {"j1"}, operators |-> OperatorIds, config_values |-> {"2"}, stops |-> TRUE],
      [job_ids |-> {"j1"}, operators |-> {"o1"}, config_values |-> ConfigValues, stops |-> TRUE],
      [job_ids |-> JobIds, operators |-> {}, config_values |-> {"2"}, stops |-> FALSE] }

\* ----------------------------------------------------------------- Init
\* ensure_db on a fresh database: no jobs, no workers, shutdown '0', defaults
Init ==
    /\ scope \in Scopes
    /\ now = 0
    /\ jobs = [j \in JobIds |-> NoJob]
    /\ workers = [w \in WorkerIds |-> NoWorker]
    /\ control = "0"
    /\ config = "2"
    /\ writer = NULL
    /\ pc = [w \in WorkerIds |-> "off"]
    /\ loc = [w \in WorkerIds |-> NoLocals]
    /\ dlq = [o \in OperatorIds |-> NULL]
    /\ requeues = 0
    /\ fails = [j \in JobIds |-> 0]
    /\ completed_once = [j \in JobIds |-> FALSE]
    /\ dead_since = [j \in JobIds |-> FALSE]
    /\ retry_at = [j \in JobIds |-> NULL_INT]

\* ------------------------------------------------------------- Front End
\* time passes
Tick ==
    /\ now < MaxTime
    /\ now' = now + 1
    /\ UNCHANGED <<scope, jobs, workers, control, config, writer, pc, loc, dlq, requeues, ghosts>>

\* enqueue_job with the defaults state=pending, attempts=0, created_at=now;
\* a second INSERT of the same id fails on the primary key.  Ids are
\* interchangeable: j1 names the job submitted first
enqueue_job(j, priority, max_retries) ==
    /\ j \in scope.job_ids
    /\ (j = "j2" => jobs["j1"].state # "absent")
    /\ writer = NULL
    /\ jobs[j].state = "absent"
    /\ jobs' = [jobs EXCEPT ![j] =
                 [NoJob EXCEPT !.state = "pending", !.max_retries = max_retries,
                               !.priority = priority, !.created_at = now]]
    /\ UNCHANGED <<scope, now, workers, control, config, writer, pc, loc, dlq, requeues, ghosts>>

\* set_config('backoff_base', v)
set_config(v) ==
    /\ v \in scope.config_values
    /\ writer = NULL
    /\ config # v
    /\ config' = v
    /\ UNCHANGED <<scope, now, jobs, workers, control, writer, pc, loc, dlq, requeues, ghosts>>

\* WHERE id=? AND state='dead'
InDlq(j) == jobs[j].state = "dead"

\* dlq_retry, first statement: SELECT id FROM jobs WHERE id=? AND state='dead';
\* no row: "not found in DLQ", sys.exit(1), nothing is written
dlq_retry_select(o, j) ==
    /\ o \in scope.operators
    /\ dlq[o] = NULL
    /\ IF InDlq(j)
         THEN /\ requeues < MaxRequeues
              /\ requeues' = requeues + 1
              /\ dlq' = [dlq EXCEPT ![o] = j]
         ELSE UNCHANGED <<dlq, requeues>>
    /\ UNCHANGED <<scope, now, jobs, workers, control, config, writer, pc, loc, ghosts>>

\* the SET clause of dlq_retry's UPDATE
Requeued(row) == [row EXCEPT !.state = "pending", !.attempts = 0, !.next_run_at = NULL_INT]

\* dlq_retry, second statement: UPDATE jobs SET state='pending', ... WHERE id=?
dlq_retry_update(o) ==
    /\ dlq[o] # NULL
    /\ writer = NULL
    /\ jobs' = [jobs EXCEPT ![dlq[o]] = Requeued(@)]
    /\ dlq' = [dlq EXCEPT ![o] = NULL]
    /\ UNCHANGED requeues
    /\ fails' = [fails EXCEPT ![dlq[o]] = 0]
    /\ dead_since' = [dead_since EXCEPT ![dlq[o]] = FALSE]
    /\ UNCHANGED <<scope, now, workers, control, config, writer, pc, loc, completed_once, retry_at>>

\* spawn_workers(count): clear the shutdown flag, start count worker processes
spawn_workers(S) ==
    /\ writer = NULL
    /\ S # {}
    /\ \A w \in S : pc[w] = "off"
    /\ control' = "0"
    /\ pc' = [w \in WorkerIds |-> IF w \in S THEN "spawned" ELSE pc[w]]
    /\ UNCHANGED <<scope, now, jobs, workers, config, writer, loc, dlq, requeues, ghosts>>

\* stop_workers: set the shutdown flag (the SIGTERMs it sends arrive as handle_signal)
stop_workers ==
    /\ scope.stops
    /\ writer = NULL
    /\ control # "1"
    /\ control' = "1"
    /\ UNCHANGED <<scope, now, jobs, workers, config, writer, pc, loc, dlq, requeues, ghosts>>

\* handle_signal: SIGTERM or SIGINT reaches a worker whose handler is installed
handle_signal(w) ==
    /\ scope.stops
    /\ pc[w] \in InLoop
    /\ writer = NULL
    /\ workers[w].status # "stopping"
    /\ workers' = [workers EXCEPT ![w].status = "stopping"]
    /\ UNCHANGED <<scope, now, jobs, control, config, writer, pc, loc, dlq, requeues, ghosts>>

\* ---------------------------------------------------------- Worker Runtime
\* worker_loop before the loop: INSERT OR REPLACE the worker row with status
\* 'starting', install handle_signal for SIGTERM and SIGINT
worker_register(w) ==
    /\ pc[w] = "spawned"
    /\ writer = NULL
    /\ workers' = [workers EXCEPT ![w] = [status |-> "starting", current_job_id |-> NULL]]
    /\ pc' = [pc EXCEPT ![w] = "loop"]
    /\ UNCHANGED <<scope, now, jobs, control, config, writer, loc, dlq, requeues, ghosts>>

\* mutant of BetweenJobs: the stop check also runs while the command executes
BetweenJobs_mid == {"loop", "exec"}

\* the pc value of the top of worker_loop's while loop, the one place where the
\* shutdown flag and the worker's status are read
BetweenJobs == {"loop"}

\* mutant of AfterCommit: the claim transaction stays open after acquire_job
AfterCommit_held(w) == w

\* the holder of the write lock once acquire_job has run COMMIT or ROLLBACK
AfterCommit(w) == NULL

\* if cur_status == "stopping" or shutdown == "1"
StopSeen(cur_status, shutdown) == cur_status = "stopping" \/ shutdown = "1"

\* worker_loop, top of the loop: read the shutdown flag and the worker's status;
\* write 'stopped' and break, or write the 'idle' heartbeat and go on to acquire_job
worker_poll(w) ==
    /\ pc[w] \in BetweenJobs
    /\ writer = NULL
    /\ IF StopSeen(workers[w].status, control)
         THEN /\ workers' = [workers EXCEPT ![w].status = "stopped"]
              /\ pc' = [pc EXCEPT ![w] = "exited"]
         ELSE /\ workers' = [workers EXCEPT ![w].status = "idle"]
              /\ pc' = [pc EXCEPT ![w] = "acquire"]
    /\ UNCHANGED <<scope, now, jobs, control, config, writer, loc, dlq, requeues, ghosts>>

\* acquire_job: now = utcnow(); BEGIN IMMEDIATE takes the write lock
acquire_begin(w) ==
    /\ pc[w] = "acquire"
    /\ writer = NULL
    /\ writer' = w
    /\ loc' = [loc EXCEPT ![w].now = now]
    /\ pc' = [pc EXCEPT ![w] = "txn"]
    /\ UNCHANGED <<scope, now, jobs, workers, control, config, dlq, requeues, ghosts>>

\* the SET clause of acquire_job's UPDATE
Claimed(row, w) == [row EXCEPT !.state = "processing", !.locked_by = w]

\* acquire_job inside the transaction: SELECT ... LIMIT 1; no row: COMMIT and
\* return None (worker_loop sleeps and continues); else the conditional UPDATE,
\* rowcount 1: COMMIT and return the job, rowcount 0: ROLLBACK and return None
acquire_job(w) ==
    /\ pc[w] = "txn"
    /\ writer = w
    /\ writer' = AfterCommit(w)
    /\ IF FirstRows(loc[w].now) = {}
         THEN /\ pc' = [pc EXCEPT ![w] = "loop"]
              /\ loc' = [loc EXCEPT ![w] = NoLocals]
              /\ UNCHANGED jobs
         ELSE \E j \in FirstRows(loc[w].now) :
                IF jobs[j].state \in ClaimableStates
                  THEN /\ jobs' = [jobs EXCEPT ![j] = Claimed(@, w)]
                       /\ loc' = [loc EXCEPT ![w] = [NoLocals EXCEPT !.job = j]]
                       /\ pc' = [pc EXCEPT ![w] = "run"]
                  ELSE /\ pc' = [pc EXCEPT ![w] = "loop"]
                       /\ loc' = [loc EXCEPT ![w] = NoLocals]
                       /\ UNCHANGED jobs
    /\ UNCHANGED <<scope, now, workers, control, config, dlq, requeues, ghosts>>

\* run_job, first statements: UPDATE workers SET status='busy', current_job_id;
\* backoff_base = int(get_config(...)), which raises on a non-numeric value and
\* ends the worker process
run_job_start(w) ==
    /\ pc[w] = "run"
    /\ writer = NULL
    /\ workers' = [workers EXCEPT ![w] = [status |-> "busy", current_job_id |-> loc[w].job]]
    /\ IF IntOf(config) = {}
         THEN /\ pc' = [pc EXCEPT ![w] = "crashed"]
              /\ UNCHANGED loc
         ELSE /\ pc' = [pc EXCEPT ![w] = "exec"]
              /\ loc' = [loc EXCEPT ![w].backoff_base = CHOOSE b \in IntOf(config) : TRUE]
    /\ UNCHANGED <<scope, now, jobs, control, config, writer, dlq, requeues, ghosts>>

\* mutant of Succeeded: the success path counts the attempt
Succeeded_counting(row) ==
    [row EXCEPT !.state = "completed", !.attempts = row.attempts + 1, !.return_code = 0,
                !.locked_by = NULL]

\* the SET clause of run_job's UPDATE when rc == 0
Succeeded(row) ==
    [row EXCEPT !.state = "completed", !.attempts = row.attempts, !.return_code = 0,
                !.locked_by = NULL]

\* run_job, last statement: UPDATE workers SET status='idle', current_job_id=NULL
Idle(row) == [row EXCEPT !.status = "idle", !.current_job_id = NULL]

\* run_job: the command ends with rc == 0; UPDATE jobs SET state='completed' ...;
\* then the worker row goes back to idle
run_job_success(w) ==
    /\ pc[w] = "exec"
    /\ writer = NULL
    /\ jobs' = [jobs EXCEPT ![loc[w].job] = Succeeded(@)]
    /\ completed_once' = [completed_once EXCEPT ![loc[w].job] = TRUE]
    /\ workers' = [workers EXCEPT ![w] = Idle(@)]
    /\ loc' = [loc EXCEPT ![w] = NoLocals]
    /\ pc' = [pc EXCEPT ![w] = "loop"]
    /\ UNCHANGED <<scope, now, control, config, writer, dlq, requeues, fails, dead_since, retry_at>>

\* run_job: the command ends with rc != 0 (or times out, rc = -1);
\* SELECT attempts, max_retries; attempts = int(cur[0]) + 1
run_job_failure_read(w) ==
    /\ pc[w] = "exec"
    /\ loc' = [loc EXCEPT ![w].attempts = jobs[loc[w].job].attempts + 1]
    /\ pc' = [pc EXCEPT ![w] = "failwrite"]
    /\ UNCHANGED <<scope, now, jobs, workers, control, config, writer, dlq, requeues, ghosts>>

\* if attempts > max_retries
Exhausted(attempts, max_retries) == attempts > max_retries

\* the SET clause of run_job's UPDATE to 'dead'
DeadLettered(row, attempts, rc) ==
    [row EXCEPT !.state = "dead", !.attempts = attempts, !.return_code = rc,
                !.locked_by = NULL]

\* the SET clause of run_job's UPDATE to 'failed'
Failed(row, attempts, rc, next_run) ==
    [row EXCEPT !.state = "failed", !.attempts = attempts, !.return_code = rc,
                !.next_run_at = next_run, !.locked_by = NULL]

\* run_job, failure path: UPDATE jobs to 'dead', or to 'failed' with
\* next_run_at = utcnow() + compute_backoff(backoff_base, attempts); then the
\* worker row goes back to idle.
\* max_retries never changes after the INSERT, so it is read from the row here
run_job_failure(w) ==
    /\ pc[w] = "failwrite"
    /\ writer = NULL
    /\ LET j == loc[w].job
           attempts == loc[w].attempts
           delay == compute_backoff(loc[w].backoff_base, attempts)
       IN  IF Exhausted(attempts, jobs[j].max_retries)
             THEN /\ jobs' = [jobs EXCEPT ![j] = DeadLettered(@, attempts, 1)]
                  /\ dead_since' = [dead_since EXCEPT ![j] = TRUE]
                  /\ UNCHANGED retry_at
             ELSE /\ jobs' = [jobs EXCEPT ![j] = Failed(@, attempts, 1, now + delay)]
                  /\ retry_at' = [retry_at EXCEPT ![j] = now + delay]
                  /\ UNCHANGED dead_since
    /\ fails' = [fails EXCEPT ![loc[w].job] = @ + 1]
    /\ workers' = [workers EXCEPT ![w] = Idle(@)]
    /\ loc' = [loc EXCEPT ![w] = NoLocals]
    /\ pc' = [pc EXCEPT ![w] = "loop"]
    /\ UNCHANGED <<scope, now, control, config, writer, dlq, requeues, completed_once>>

\* --------------------------------------------------------- specification
worker_loop(w) ==
    \/ worker_register(w)
    \/ worker_poll(w)
    \/ acquire_begin(w)
    \/ acquire_job(w)
    \/ run_job_start(w)
    \/ run_job_success(w)
    \/ run_job_failure_read(w)
    \/ run_job_failure(w)

Next ==
    \/ Tick
    \/ \E j \in JobIds, p \in 0..MaxPriority, r \in 0..MaxRetries : enqueue_job(j, p, r)
    \/ \E v \in ConfigValues : set_config(v)
    \/ \E o \in OperatorIds, j \in JobIds : dlq_retry_select(o, j)
    \/ \E o \in OperatorIds : dlq_retry_update(o)
    \/ \E S \in SUBSET WorkerIds : spawn_workers(S)
    \/ stop_workers
    \/ \E w \in WorkerIds : handle_signal(w)
    \/ \E w \in WorkerIds : worker_loop(w)

Spec == Init /\ [][Next]_vars

\* ------------------------------------------------------- steps, by effect
\* acquire_job returned job j to worker w
ClaimStep(w, j) == pc[w] = "txn" /\ pc'[w] = "run" /\ loc'[w].job = j

\* acquire_job returned None to worker w
ClaimNone(w) == pc[w] = "txn" /\ pc'[w] = "loop"

\* run_job read the attempts of job j on its failure path
FailureReadStep(w, j) == pc[w] = "exec" /\ pc'[w] = "failwrite" /\ loc[w].job = j

\* run_job wrote its success UPDATE for job j
SuccessStep(w, j) == pc[w] = "exec" /\ pc'[w] = "loop" /\ loc[w].job = j

\* run_job wrote its failure UPDATE for job j
FailureStep(w, j) == pc[w] = "failwrite" /\ pc'[w] = "loop" /\ loc[w].job = j

\* dlq_retry wrote its UPDATE for job j
RequeueStep(o, j) == dlq[o] = j /\ dlq'[o] = NULL

\* ------------------------------------------------------------------ C1
\* C1: claim transactions exclude each other, a claim returns a job only if
\* that job was pending or failed (never processing) and eligible, it leaves
\* the job processing and locked by the one caller, and a claim returns None
\* only when no job is eligible: of two claimants of one pending job, one gets
\* it and the other gets none.
C1_AtomicClaim ==
    /\ [](Cardinality({w \in WorkerIds : pc[w] = "txn"}) <= 1)
    /\ [][\A w \in WorkerIds :
            /\ \A j \in JobIds :
                 ClaimStep(w, j) =>
                   /\ jobs[j].state \in {"pending", "failed"}
                   /\ jobs'[j].state = "processing"
                   /\ jobs'[j].locked_by = w
                   /\ \A k \in JobIds \ {j} : jobs'[k] = jobs[k]
            /\ ClaimNone(w) =>
                   /\ jobs' = jobs
                   /\ \A k \in JobIds :
                        jobs[k].state \in {"pending", "failed"} =>
                          /\ jobs[k].next_run_at # NULL_INT
                          /\ jobs[k].next_run_at > loc[w].now]_vars

\* two claimants and one job: one worker holds the only job while the other
\* is inside its claim transaction
C1_Witness ==
    \E w \in WorkerIds, v \in WorkerIds, j \in JobIds :
        /\ w # v
        /\ Holds(w, j)
        /\ jobs[j].state = "processing"
        /\ jobs[j].locked_by = w
        /\ pc[v] = "txn"
        /\ \A k \in JobIds \ {j} : jobs[k].state = "absent"

\* ------------------------------------------------------------------ C2
\* C2: in every reachable state at most one worker is between its claim of
\* a job and its completion of that job.
C2_OneHolder ==
    \A j \in JobIds : Cardinality({w \in WorkerIds : Holds(w, j)}) <= 1

\* ------------------------------------------------------------------ C3
\* C3: a job is dead exactly when r+1 failure-path completions have happened
\* since its submission or last requeue, r being its max_retries: a dead job
\* has r+1 failures and attempts = r+1, a failed job has between 1 and r
\* failures and attempts equal to their number.
C3_DeadAfterExactly ==
    \A j \in JobIds :
        /\ jobs[j].state = "dead" =>
             /\ fails[j] = jobs[j].max_retries + 1
             /\ jobs[j].attempts = jobs[j].max_retries + 1
        /\ jobs[j].state = "failed" =>
             /\ fails[j] >= 1
             /\ fails[j] <= jobs[j].max_retries
             /\ jobs[j].attempts = fails[j]

\* ------------------------------------------------------------------ C4
\* C4: claim never returns a job that has been completed, and never returns
\* a job that was dead-lettered and not requeued since.
C4_NoReclaim ==
    [][\A w \in WorkerIds, j \in JobIds :
         ClaimStep(w, j) => ~completed_once[j] /\ ~dead_since[j]]_vars

\* ------------------------------------------------------------------ C5
\* C5: dlq_retry changes a job only if the job is dead at the moment of the
\* change; a call on a job that is not dead changes nothing.
C5_RequeueOnlyDead ==
    [][\A o \in OperatorIds, j \in JobIds :
         /\ RequeueStep(o, j) => jobs[j].state = "dead"
         /\ (dlq[o] = NULL /\ dlq'[o] = j) => jobs[j].state = "dead" /\ jobs' = jobs]_vars

C7_SuccessKeepsAttempts ==
    /\ [](\A j \in JobIds :
            (jobs[j].state = "completed" /\ fails[j] = 0) => jobs[j].attempts = 0)
    /\ [][\A j \in JobIds :
            /\ \A w \in WorkerIds :
                 SuccessStep(w, j) =>
                   /\ jobs'[j].state = "completed"
                   /\ jobs'[j].return_code = 0
                   /\ jobs'[j].locked_by = NULL
                   /\ jobs'[j].attempts = jobs[j].attempts
            /\ jobs'[j].attempts # jobs[j].attempts =>
                 \/ \E w \in WorkerIds :
                      FailureStep(w, j) /\ jobs'[j].attempts = loc[w].attempts
                 \/ \E o \in OperatorIds :
                      RequeueStep(o, j) /\ jobs'[j].attempts = 0]_vars

\* a job that never failed is completed with attempts 0, return code 0, no lock
C7_Witness ==
    \E j \in JobIds :
        /\ jobs[j].state = "completed"
        /\ jobs[j].attempts = 0
        /\ jobs[j].return_code = 0
        /\ jobs[j].locked_by = NULL
        /\ fails[j] = 0
        /\ \A w \in WorkerIds : ~Holds(w, j)

\* ------------------------------------------------------------------ C8
\* C8: the job a claim returns is, among the jobs that are pending or failed
\* with next_run_at null or <= the claim's now, one of highest priority and,
\* within that priority, of earliest creation time.
C8_PriorityThenFifo ==
    [][\A w \in WorkerIds, j \in JobIds :
         ClaimStep(w, j) =>
           /\ jobs[j].next_run_at = NULL_INT \/ jobs[j].next_run_at <= loc[w].now
           /\ \A k \in JobIds :
                (/\ jobs[k].state \in {"pending", "failed"}
                 /\ jobs[k].next_run_at = NULL_INT \/ jobs[k].next_run_at <= loc[w].now) =>
                  /\ jobs[k].priority <= jobs[j].priority
                  /\ jobs[k].priority = jobs[j].priority =>
                       jobs[j].created_at <= jobs[k].created_at]_vars

\* a worker holds the higher-priority job while an older job of lower
\* priority is still pending
C8_Witness ==
    \E w \in WorkerIds, j \in JobIds, k \in JobIds :
        /\ Holds(w, j)
        /\ jobs[j].state = "processing"
        /\ jobs[k].state = "pending"
        /\ jobs[k].attempts = 0
        /\ jobs[k].priority < jobs[j].priority
        /\ jobs[k].created_at < jobs[j].created_at

\* ------------------------------------------------------------------ C9
\* C9: claim never returns a job before the time that the job's latest
\* retry-scheduling failure set for it.
C9_NotBeforeRetryTime ==
    [][\A w \in WorkerIds, j \in JobIds :
         ClaimStep(w, j) => retry_at[j] = NULL_INT \/ retry_at[j] <= now]_vars

\* ----------------------------------------------------------------- C10
\* The run explored for progress: one job, one operator, numeric config
\* values only (no worker ends on int() raising).
FairScopes ==
    { [job_ids |-> {"j1"}, operators |-> {"o1"}, config_values |-> {"2", "3"}, stops |-> TRUE] }

InitFair ==
    /\ scope \in FairScopes
    /\ now = 0
    /\ jobs = [j \in JobIds |-> NoJob]
    /\ workers = [w \in WorkerIds |-> NoWorker]
    /\ control = "0"
    /\ config = "2"
    /\ writer = NULL
    /\ pc = [w \in WorkerIds |-> "off"]
    /\ loc = [w \in WorkerIds |-> NoLocals]
    /\ dlq = [o \in OperatorIds |-> NULL]
    /\ requeues = 0
    /\ fails = [j \in JobIds |-> 0]
    /\ completed_once = [j \in JobIds |-> FALSE]
    /\ dead_since = [j \in JobIds |-> FALSE]
    /\ retry_at = [j \in JobIds |-> NULL_INT]

\* every worker process keeps taking steps whenever it can again and again:
\* its command ends, and it gets the write lock it waits for
FairSpec ==
    /\ InitFair
    /\ [][Next]_vars
    /\ \A w \in WorkerIds : SF_vars(worker_loop(w))

\* C10: once stop_workers has set the shutdown flag, every worker process
\* running at that moment eventually has status stopped.
C10_ShutdownNotLost ==
    \A w \in WorkerIds :
        (control = "1" /\ pc[w] \in Running) ~> (workers[w].status = "stopped")

\* ----------------------------------------------------------------- C11
\* C11: the stop check runs only between jobs: a worker has status stopped
\* only after it left its loop, holding no job and with no processing job
\* locked by it, and the step that writes stopped is taken at the top of the
\* loop, by a worker that holds no job, and changes no job.
C11_Drain ==
    /\ [](\A w \in WorkerIds :
            workers[w].status = "stopped" =>
              /\ pc[w] = "exited"
              /\ loc[w].job = NULL
              /\ \A j \in JobIds :
                   ~(jobs[j].state = "processing" /\ jobs[j].locked_by = w))
    /\ [][\A w \in WorkerIds :
            (workers'[w].status = "stopped" /\ workers[w].status # "stopped") =>
              /\ pc[w] = "loop"
              /\ pc'[w] = "exited"
              /\ loc[w].job = NULL
              /\ workers[w].current_job_id = NULL
              /\ jobs' = jobs
              /\ \A j \in JobIds :
                   ~(jobs[j].state = "processing" /\ jobs[j].locked_by = w)]_vars

\* the only worker ever started has stopped on the shutdown flag, and the job
\* it ran is completed and unlocked
C11_Witness ==
    \E w \in WorkerIds, j \in JobIds :
        /\ workers[w].status = "stopped"
        /\ pc[w] = "exited"
        /\ control = "1"
        /\ \A v \in WorkerIds \ {w} : pc[v] = "off"
        /\ jobs[j].state = "completed"
        /\ jobs[j].locked_by = NULL

\* ----------------------------------------------------------------- C12
\* C12: no claim by a worker succeeds while the shutdown flag is set: a
\* worker that was polling (holding no job) when stop_workers set the flag
\* claims no further job.
C12_NoClaimAfterFlag ==
    [][\A w \in WorkerIds, j \in JobIds : ClaimStep(w, j) => control # "1"]_vars

\* ----------------------------------------------------------------- C13
\* C13: the write lock is held only inside acquire_job's transaction, never
\* by a worker that is running a job; and while some worker executes a
\* command, a claim by another worker returns a job whenever a job other
\* than the one being executed is pending or failed and due at the claim's
\* time.
C13_NoLockWhileExecuting ==
    /\ [](\A w \in WorkerIds :
            /\ writer = w => pc[w] = "txn"
            /\ pc[w] \in {"run", "exec", "failwrite"} => writer # w)
    /\ [][\A w \in WorkerIds, v \in WorkerIds :
            (/\ w # v
             /\ pc[w] = "exec"
             /\ pc[v] = "txn"
             /\ pc'[v] # "txn"
             /\ \E k \in JobIds \ {loc[w].job} :
                  /\ jobs[k].state \in {"pending", "failed"}
                  /\ jobs[k].next_run_at = NULL_INT \/ jobs[k].next_run_at <= loc[v].now) =>
              /\ writer' = NULL
              /\ \E k \in JobIds : ClaimStep(v, k) /\ jobs'[k].locked_by = v]_vars

\* one worker executes its job, no one holds the write lock, and the other
\* worker has claimed the other job and executes it too
C13_Witness ==
    \E w \in WorkerIds, v \in WorkerIds, j \in JobIds, k \in JobIds :
        /\ w # v
        /\ j # k
        /\ pc[w] = "exec"
        /\ loc[w].job = j
        /\ pc[v] = "exec"
        /\ loc[v].job = k
        /\ jobs[j].state = "processing"
        /\ jobs[k].state = "processing"
        /\ jobs[k].locked_by = v
        /\ writer = NULL

\* ----------------------------------------------------------------- C14
\* C14: run_job never ends on the backoff_base it reads: whatever the config
\* value, a worker that starts run_job goes on to execute the command, and
\* with a non-numeric value it works with base 2.
C14_ConfigFallback ==
    [][\A w \in WorkerIds :
         (pc[w] = "run" /\ pc'[w] # "run") =>
           /\ pc'[w] = "exec"
           /\ config \notin {"2", "3"} => loc'[w].backoff_base = 2]_vars

\* ----------------------------------------------------------------- C15
\* C15: every change of a job's state is pending->processing,
\* failed->processing, processing->completed, processing->failed,
\* processing->dead or dead->pending, the last one by a requeue only; and a
\* completion step writes only a job that is processing.
C15_StateEdges ==
    [][\A j \in JobIds :
         /\ (jobs[j].state # "absent" /\ jobs'[j].state # jobs[j].state) =>
              \/ jobs[j].state = "pending" /\ jobs'[j].state = "processing"
              \/ jobs[j].state = "failed" /\ jobs'[j].state = "processing"
              \/ jobs[j].state = "processing" /\ jobs'[j].state = "completed"
              \/ jobs[j].state = "processing" /\ jobs'[j].state = "failed"
              \/ jobs[j].state = "processing" /\ jobs'[j].state = "dead"
              \/ /\ jobs[j].state = "dead"
                 /\ jobs'[j].state = "pending"
                 /\ \E o \in OperatorIds : RequeueStep(o, j)
         /\ \A w \in WorkerIds :
              (SuccessStep(w, j) \/ FailureStep(w, j)) => jobs[j].state = "processing"]_vars

\* ----------------------------------------------------------------- C16
\* C16: every change of a worker's status is starting->idle, idle->busy,
\* busy->idle, idle->stopping or stopping->stopped, and a stopped worker
\* keeps that status.
C16_StatusEdges ==
    [][\A w \in WorkerIds :
         (workers[w].status # "absent" /\ workers'[w].status # workers[w].status) =>
           \/ workers[w].status = "starting" /\ workers'[w].status = "idle"
           \/ workers[w].status = "idle" /\ workers'[w].status = "busy"
           \/ workers[w].status = "busy" /\ workers'[w].status = "idle"
           \/ workers[w].status = "idle" /\ workers'[w].status = "stopping"
           \/ workers[w].status = "stopping" /\ workers'[w].status = "stopped"]_vars

\* ----------------------------------------------------------------- C17
\* C17: a worker whose status has been set to stopping, at any point of its
\* loop, eventually has status stopped, whatever the shutdown flag is.
C17_StoppingStops ==
    \A w \in WorkerIds :
        (workers[w].status = "stopping") ~> (workers[w].status = "stopped")

\* ----------------------------------------------------------------- C18
\* C18: when a failure is recorded as failed, the delay comes from the
\* backoff_base that config holds at that moment: with config 2 or 3,
\* next_run_at = now + config^attempts.
C18_BaseAtFailureTime ==
    [][\A w \in WorkerIds, j \in JobIds :
         (FailureStep(w, j) /\ jobs'[j].state = "failed") =>
           /\ config = "2" => jobs'[j].next_run_at = now + Pow(2, jobs'[j].attempts)
           /\ config = "3" => jobs'[j].next_run_at = now + Pow(3, jobs'[j].attempts)]_vars

\* ----------------------------------------------------------------- C19
\* C19: in every reachable state a job has locked_by set exactly when its
\* state is processing.
C19_LockIffProcessing ==
    \A j \in JobIds :
        (jobs[j].locked_by # NULL) <=> (jobs[j].state = "processing")

\* ----------------------------------------------------------------- C20
\* C20: in every reachable state a job that is completed, dead or pending
\* has next_run_at null.
C20_NextRunCleared ==
    \A j \in JobIds :
        jobs[j].state \in {"completed", "dead", "pending"} =>
          jobs[j].next_run_at = NULL_INT

\* ----------------------------------------------------------------- C21
\* The runs explored for the progress of jobs: no stop_workers and no signal,
\* numeric config values only (no worker ends on int() raising); one job
\* that is never requeued, under both bases, and one job with requeues.
LiveScopes ==
    { [job_ids |-> {"j1"}, operators |-> {}, config_values |-> {"2", "3"}, stops |-> FALSE],
      [job_ids |-> {"j1"}, operators |-> {"o1"}, config_values |-> {"2"}, stops |-> FALSE] }

InitLive ==
    /\ scope \in LiveScopes
    /\ now = 0
    /\ jobs = [j \in JobIds |-> NoJob]
    /\ workers = [w \in WorkerIds |-> NoWorker]
    /\ control = "0"
    /\ config = "2"
    /\ writer = NULL
    /\ pc = [w \in WorkerIds |-> "off"]
    /\ loc = [w \in WorkerIds |-> NoLocals]
    /\ dlq = [o \in OperatorIds |-> NULL]
    /\ requeues = 0
    /\ fails = [j \in JobIds |-> 0]
    /\ completed_once = [j \in JobIds |-> FALSE]
    /\ dead_since = [j \in JobIds |-> FALSE]
    /\ retry_at = [j \in JobIds |-> NULL_INT]

\* time passes beyond MaxTime for as long as a failed job waits for its
\* next_run_at: the wall clock does not stop while a retry is pending
Elapse ==
    /\ now >= MaxTime
    /\ \E j \in JobIds : jobs[j].state = "failed" /\ jobs[j].next_run_at > now
    /\ now' = now + 1
    /\ UNCHANGED <<scope, jobs, workers, control, config, writer, pc, loc, dlq, requeues, ghosts>>

\* the operations of a run without shutdown: everything but stop_workers and
\* the signals
LiveNext ==
    \/ Tick
    \/ Elapse
    \/ \E j \in JobIds, p \in 0..MaxPriority, r \in 0..MaxRetries : enqueue_job(j, p, r)
    \/ \E v \in ConfigValues : set_config(v)
    \/ \E o \in OperatorIds, j \in JobIds : dlq_retry_select(o, j)
    \/ \E o \in OperatorIds : dlq_retry_update(o)
    \/ \E S \in SUBSET WorkerIds : spawn_workers(S)
    \/ \E w \in WorkerIds : worker_loop(w)

\* every worker process keeps taking steps (its command ends, it gets the
\* write lock it waits for), and time advances
LiveSpec ==
    /\ InitLive
    /\ [][LiveNext]_vars
    /\ \A w \in WorkerIds : SF_vars(worker_loop(w))
    /\ WF_vars(Tick)
    /\ WF_vars(Elapse)

\* C21: with a worker running and never asked to stop, every submitted job
\* eventually is completed or dead; and every submitted job eventually is
\* dead unless its command has succeeded once, so a job whose command fails
\* on every attempt reaches dead.
C21_JobsFinish ==
    \A j \in JobIds :
        /\ (jobs[j].state # "absent" /\ \E w \in WorkerIds : pc[w] \in Running)
             ~> (jobs[j].state \in {"completed", "dead"})
        /\ (jobs[j].state # "absent" /\ \E w \in WorkerIds : pc[w] \in Running)
             ~> (completed_once[j] \/ jobs[j].state = "dead")

\* a job whose two attempts both failed, the second one after its backoff
\* delay, is dead while a worker keeps polling
C21_Witness ==
    \E j \in JobIds, w \in WorkerIds :
        /\ jobs[j].state = "dead"
        /\ jobs[j].max_retries = 1
        /\ jobs[j].attempts = 2
        /\ fails[j] = 2
        /\ ~completed_once[j]
        /\ now >= jobs[j].next_run_at
        /\ now > MaxTime
        /\ pc[w] \in {"loop", "acquire", "txn"}
====
